---------------------------- MODULE Spec2Model ----------------------------
(***************************************************************************)
(* BufferedStream (src/bufferedstream.js): a readable/writable stream that *)
(* buffers written chunks and emits them on later event-loop turns.        *)
(*                                                                         *)
(* The object's fields are the variables below.  `ticks` is the FIFO queue *)
(* of callbacks handed to process.nextTick; `data`, `drains` and `ends`    *)
(* record the 'data', 'drain' and 'end' signals emitted so far.  Chunks    *)
(* are Buffers (byte sequences); `encoding` stays null, as the constructor *)
(* leaves it, so chunks are emitted as they were written.  A 'data'        *)
(* listener may call pause() during a drain pass: the drain pass takes the *)
(* index p of the emission at which it does so (0: it never does).         *)
(***************************************************************************)
EXTENDS Integers, Sequences, FiniteSets, TLC

\* Bounds of the exploration.
MaxChunkLen == 1
MaxCapacity == 1
MaxCalls == 4

\* Chunks of length 0..MaxChunkLen, told apart by their length.
Chunks == { [i \in 1..n |-> i] : n \in 0..MaxChunkLen }
\* The argument lists of end(): end() and end(chunk).
EndArgs == { << >> } \cup { << c >> : c \in Chunks }
\* maxSize as the constructor stores it: -1 when no number is given.
MaxSizes == (-1)..MaxCapacity

VARIABLES
    size, readable, writable, ended, maxSize,
    _buffer, _wait, _flushing, _wasFull,
    ticks,          \* process.nextTick queue: "flush" and "end" callbacks
    data,           \* chunks emitted as 'data', in order
    drains,         \* number of 'drain' signals emitted
    ends,           \* number of 'end' signals emitted
    threw,          \* the last API call threw an Error
    ret,            \* return value of the last write() that returned
    accepted,       \* chunks enqueued by write/end, in order
    destroyCalled,  \* destroy() was called directly by the user
    endedAtDestroy, \* end() had been called when the component was destroyed
    last,           \* the last operation or scheduled step that ran
    calls           \* number of API calls made so far

vars == << size, readable, writable, ended, maxSize, _buffer, _wait,
           _flushing, _wasFull, ticks, data, drains, ends, threw, ret,
           accepted, destroyCalled, endedAtDestroy, last, calls >>

\* The stream object together with the event loop and the emitted signals.
Obj ==
    [ size |-> size, readable |-> readable, writable |-> writable,
      ended |-> ended, maxSize |-> maxSize, buffer |-> _buffer,
      wait |-> _wait, flushing |-> _flushing, wasFull |-> _wasFull,
      ticks |-> ticks, data |-> data, drains |-> drains, ends |-> ends,
      threw |-> FALSE, ret |-> ret ]

\* The step's result becomes the next state.
Becomes(result) ==
    \E o \in {result} :
        /\ size' = o.size
        /\ readable' = o.readable
        /\ writable' = o.writable
        /\ ended' = o.ended
        /\ maxSize' = o.maxSize
        /\ _buffer' = o.buffer
        /\ _wait' = o.wait
        /\ _flushing' = o.flushing
        /\ _wasFull' = o.wasFull
        /\ ticks' = o.ticks
        /\ data' = o.data
        /\ drains' = o.drains
        /\ ends' = o.ends
        /\ threw' = o.threw
        /\ ret' = o.ret
        /\ endedAtDestroy' = IF readable /\ ~o.readable THEN ended
                             ELSE endedAtDestroy

\* new BufferedStream(maxSize)
Init ==
    /\ size = 0
    /\ readable = TRUE
    /\ writable = TRUE
    /\ ended = FALSE
    /\ maxSize \in MaxSizes
    /\ _buffer = << >>
    /\ _wait = FALSE
    /\ _flushing = FALSE
    /\ _wasFull = FALSE
    /\ ticks = << >>
    /\ data = << >>
    /\ drains = 0
    /\ ends = 0
    /\ threw = FALSE
    /\ ret = TRUE
    /\ accepted = << >>
    /\ destroyCalled = FALSE
    /\ endedAtDestroy = FALSE
    /\ last = "new"
    /\ calls = 0

\* getter empty
empty(o) == Len(o.buffer) = 0

\* Bug: the limit compared with <= (full as soon as size reaches maxSize).
full_atLimit(o) == o.maxSize >= 0 /\ o.maxSize <= o.size

\* getter full
full(o) == o.maxSize >= 0 /\ o.maxSize < o.size

\* pause()
pause(o) == [o EXCEPT !.wait = TRUE]

\* Bug: destroy() leaves the stream writable.
destroy_keepWritable(o) == [o EXCEPT !.buffer = << >>, !.readable = FALSE]

\* destroy()
destroy(o) == [o EXCEPT !.buffer = << >>, !.readable = FALSE, !.writable = FALSE]

\* Bug: the loop takes the newest chunk (pop) instead of the oldest (shift).
RECURSIVE flushLoop_pop(_, _, _)
flushLoop_pop(o, p, n) ==
    IF ~o.wait /\ o.readable /\ Len(o.buffer) > 0
    THEN LET chunk == o.buffer[Len(o.buffer)]
             o1 == [o EXCEPT !.buffer = SubSeq(@, 1, Len(@) - 1),
                             !.size = @ - Len(chunk),
                             !.data = Append(@, chunk)]
             o2 == IF n + 1 = p THEN pause(o1) ELSE o1
         IN  CHOOSE r \in { flushLoop_pop(next, p, n + 1) : next \in {o2} } : TRUE
    ELSE o

\* Bug: the loop does not look at _wait.
RECURSIVE flushLoop_ignoreWait(_, _, _)
flushLoop_ignoreWait(o, p, n) ==
    IF o.readable /\ Len(o.buffer) > 0
    THEN LET chunk == Head(o.buffer)
             o1 == [o EXCEPT !.buffer = Tail(@),
                             !.size = @ - Len(chunk),
                             !.data = Append(@, chunk)]
             o2 == IF n + 1 = p THEN pause(o1) ELSE o1
         IN  CHOOSE r \in { flushLoop_ignoreWait(next, p, n + 1) : next \in {o2} } : TRUE
    ELSE o

\* The drain loop of flush(): n chunks were emitted so far in this pass.
\* (The object after one iteration is evaluated once, as `next`, and the loop
\* goes on from it.)
RECURSIVE flushLoop(_, _, _)
flushLoop(o, p, n) ==
    IF ~o.wait /\ o.readable /\ Len(o.buffer) > 0
    THEN LET chunk == Head(o.buffer)
             o1 == [o EXCEPT !.buffer = Tail(@),
                             !.size = @ - Len(chunk),
                             !.data = Append(@, chunk)]
             o2 == IF n + 1 = p THEN pause(o1) ELSE o1
         IN  CHOOSE r \in { flushLoop(next, p, n + 1) : next \in {o2} } : TRUE
    ELSE o

\* Bug: 'drain' is emitted but _wasFull is not cleared.
flush_keepWasFull(o, p) ==
    LET o1 == flushLoop(o, p, 0)
    IN  IF o1.wasFull /\ ~full(o1)
        THEN [o1 EXCEPT !.drains = @ + 1]
        ELSE o1

\* Bug: flush() clears _flushing when it leaves the queue empty.
flush_clearsFlushing(o, p) ==
    LET o1 == flushLoop(o, p, 0)
        o2 == IF empty(o1) THEN [o1 EXCEPT !.flushing = FALSE] ELSE o1
    IN  IF o2.wasFull /\ ~full(o2)
        THEN [o2 EXCEPT !.wasFull = FALSE, !.drains = @ + 1]
        ELSE o2

\* flush()
flush(o, p) ==
    LET o1 == flushLoop(o, p, 0)
    IN  IF o1.wasFull /\ ~full(o1)
        THEN [o1 EXCEPT !.wasFull = FALSE, !.drains = @ + 1]
        ELSE o1

\* _flushOnNextTick(): hands the closure `tick` to process.nextTick.
flushOnNextTick(o) == [o EXCEPT !.ticks = Append(@, "flush")]

\* Bug: the closure reschedules itself although the stream is paused.
flushTick_noPauseExit(o, p) ==
    LET o1 == flush(o, p)
    IN  IF empty(o1) THEN [o1 EXCEPT !.flushing = FALSE]
        ELSE [o1 EXCEPT !.ticks = Append(@, "flush")]

\* Bug: the closure reschedules itself although the queue is empty.
flushTick_alwaysReschedule(o, p) ==
    LET o1 == flush(o, p)
    IN  IF o1.wait THEN o1
        ELSE [o1 EXCEPT !.ticks = Append(@, "flush")]

\* Bug: the closure does not clear _flushing when it stops on an empty queue.
flushTick_keepFlushing(o, p) ==
    LET o1 == flush(o, p)
    IN  IF empty(o1) THEN o1
        ELSE IF o1.wait THEN o1
        ELSE [o1 EXCEPT !.ticks = Append(@, "flush")]

\* The closure `tick` of _flushOnNextTick, run by the event loop.
flushTick(o, p) ==
    LET o1 == flush(o, p)
    IN  IF empty(o1) THEN [o1 EXCEPT !.flushing = FALSE]
        ELSE IF o1.wait THEN o1
        ELSE [o1 EXCEPT !.ticks = Append(@, "flush")]

\* _emitEndDestroyNextTick(): hands the closure `tick` to process.nextTick.
emitEndDestroyNextTick(o) == [o EXCEPT !.ticks = Append(@, "end")]

\* Bug: the closure does not wait for the queue to be empty.
endTick_noEmptyCheck(o) == [destroy(o) EXCEPT !.ends = @ + 1]

\* Bug: the closure looks at _wait before it looks at the queue.
endTick_waitFirst(o) ==
    IF o.wait THEN o
    ELSE IF empty(o) THEN [destroy(o) EXCEPT !.ends = @ + 1]
    ELSE [o EXCEPT !.ticks = Append(@, "end")]

\* The closure `tick` of _emitEndDestroyNextTick, run by the event loop.
endTick(o) ==
    IF empty(o) THEN [destroy(o) EXCEPT !.ends = @ + 1]
    ELSE IF o.wait THEN o
    ELSE [o EXCEPT !.ticks = Append(@, "end")]

\* Bug: resume() does not restart the drain chain.
resume_noFlush(o) ==
    LET o1 == [o EXCEPT !.wait = FALSE]
    IN  IF o1.ended THEN emitEndDestroyNextTick(o1) ELSE o1

\* Bug: resume() does not restart the finalization watcher.
resume_noEnd(o) ==
    LET o1 == [o EXCEPT !.wait = FALSE]
    IN  IF ~empty(o1) THEN flushOnNextTick(o1) ELSE o1

\* Bug: resume() drains the queue at once instead of scheduling a step.
resume_flushNow(o) ==
    LET o1 == flush([o EXCEPT !.wait = FALSE], 0)
    IN  IF o1.ended THEN emitEndDestroyNextTick(o1) ELSE o1

\* resume()
resume(o) ==
    LET o1 == [o EXCEPT !.wait = FALSE]
        o2 == IF ~empty(o1) THEN flushOnNextTick(o1) ELSE o1
    IN  IF o2.ended THEN emitEndDestroyNextTick(o2) ELSE o2

\* Bug: write() does not refuse an ended stream.
write_afterEnd(o, chunk) ==
    IF ~o.writable THEN [o EXCEPT !.threw = TRUE]
    ELSE LET o1 == [o EXCEPT !.buffer = Append(@, chunk),
                             !.size = @ + Len(chunk)]
             o2 == IF ~o1.flushing
                   THEN [flushOnNextTick(o1) EXCEPT !.flushing = TRUE]
                   ELSE o1
         IN  IF full(o2) THEN [o2 EXCEPT !.wasFull = TRUE, !.ret = FALSE]
             ELSE [o2 EXCEPT !.ret = TRUE]

\* Bug: write() returns false without recording _wasFull.
write_forgetWasFull(o, chunk) ==
    IF ~o.writable \/ o.ended THEN [o EXCEPT !.threw = TRUE]
    ELSE LET o1 == [o EXCEPT !.buffer = Append(@, chunk),
                             !.size = @ + Len(chunk)]
             o2 == IF ~o1.flushing
                   THEN [flushOnNextTick(o1) EXCEPT !.flushing = TRUE]
                   ELSE o1
         IN  IF full(o2) THEN [o2 EXCEPT !.ret = FALSE]
             ELSE [o2 EXCEPT !.ret = TRUE]

\* write(chunk)
write(o, chunk) ==
    IF ~o.writable \/ o.ended THEN [o EXCEPT !.threw = TRUE]
    ELSE LET o1 == [o EXCEPT !.buffer = Append(@, chunk),
                             !.size = @ + Len(chunk)]
             o2 == IF ~o1.flushing
                   THEN [flushOnNextTick(o1) EXCEPT !.flushing = TRUE]
                   ELSE o1
         IN  IF full(o2) THEN [o2 EXCEPT !.wasFull = TRUE, !.ret = FALSE]
             ELSE [o2 EXCEPT !.ret = TRUE]

\* end(chunk) and end(): arguments is << chunk >> or << >>.
end(o, arguments) ==
    IF o.ended THEN [o EXCEPT !.threw = TRUE]
    ELSE LET o1 == IF Len(arguments) > 0 THEN write(o, arguments[1]) ELSE o
         IN  IF o1.threw THEN o1
             ELSE emitEndDestroyNextTick([o1 EXCEPT !.ended = TRUE])

----------------------------------------------------------------------------
\* The API calls a client makes, and the steps the event loop runs.

Call(name, o) ==
    /\ calls < MaxCalls
    /\ calls' = calls + 1
    /\ last' = name
    /\ Becomes(o)

Write(chunk) ==
    /\ Call("write", write(Obj, chunk))
    /\ accepted' = IF write(Obj, chunk).threw THEN accepted
                   ELSE Append(accepted, chunk)
    /\ UNCHANGED destroyCalled

End(arguments) ==
    /\ Call("end", end(Obj, arguments))
    /\ accepted' = IF end(Obj, arguments).threw THEN accepted
                   ELSE accepted \o arguments
    /\ UNCHANGED destroyCalled

Pause ==
    /\ Call("pause", pause(Obj))
    /\ UNCHANGED << accepted, destroyCalled >>

Resume ==
    /\ Call("resume", resume(Obj))
    /\ UNCHANGED << accepted, destroyCalled >>

Flush(p) ==
    /\ Call("flush", flush(Obj, p))
    /\ UNCHANGED << accepted, destroyCalled >>

Destroy ==
    /\ Call("destroy", destroy(Obj))
    /\ destroyCalled' = TRUE
    /\ UNCHANGED accepted

\* The event loop runs the oldest pending callback.
TickFlush(p) ==
    /\ ticks # << >>
    /\ Head(ticks) = "flush"
    /\ Becomes(flushTick([Obj EXCEPT !.ticks = Tail(@)], p))
    /\ last' = "flushTick"
    /\ UNCHANGED << accepted, destroyCalled, calls >>

TickEnd ==
    /\ ticks # << >>
    /\ Head(ticks) = "end"
    /\ Becomes(endTick([Obj EXCEPT !.ticks = Tail(@)]))
    /\ last' = "endTick"
    /\ UNCHANGED << accepted, destroyCalled, calls >>

DoWrite == \E chunk \in Chunks : Write(chunk)
DoEnd == \E arguments \in EndArgs : End(arguments)
DoFlush == \E p \in 0..Len(_buffer) : Flush(p)
DoTickFlush == \E p \in 0..Len(_buffer) : TickFlush(p)

Tick == DoTickFlush \/ TickEnd

Next ==
    \/ DoWrite
    \/ DoEnd
    \/ Pause
    \/ Resume
    \/ DoFlush
    \/ Destroy
    \/ DoTickFlush
    \/ TickEnd

Spec == Init /\ [][Next]_vars

\* The event loop runs every pending callback.
LiveSpec == Spec /\ WF_vars(Tick)

----------------------------------------------------------------------------
\* Derived notions used by the properties.

\* Sum of the lengths of the chunks of a queue.
RECURSIVE SumLen(_)
SumLen(q) == IF q = << >> THEN 0 ELSE Len(Head(q)) + SumLen(Tail(q))

\* The object's own fields and the event loop (not the observation variables).
state == << size, readable, writable, ended, maxSize, _buffer, _wait,
            _flushing, _wasFull, ticks >>

\* The signals emitted so far.
signals == << data, drains, ends >>

----------------------------------------------------------------------------
\* C1: over any execution the 'end' signal is emitted at most once, also
\* after end("") and when resume() is called after end().
C1_EndAtMostOnce == ends <= 1

\* C2: when destroy() is not called directly, the chunks emitted as 'data'
\* followed by the chunks still queued are the chunks accepted by write/end,
\* in write order, whatever the interleaving of pause and resume.
C2_OrderPreserved == ~destroyCalled => data \o _buffer = accepted

\* Some chunks emitted, some still queued, after a pause and a resume.
C2_Witness ==
    /\ ~destroyCalled
    /\ last = "resume"
    /\ Len(data) >= 1
    /\ Len(_buffer) >= 1
    /\ data[1] # _buffer[1]

\* C3: in every reachable state, size is the sum of the lengths of the
\* chunks currently held in the queue.
C3_SizeIsSum == size = SumLen(_buffer)

\* C4: 'end' is emitted only after end() was called and the queue became
\* empty, every accepted chunk having been emitted as 'data' (when destroy()
\* is not called directly); no 'data' is emitted after 'end'.
C4_EndAfterData ==
    [][ /\ ends' # ends =>
            /\ ended
            /\ _buffer = << >>
            /\ ~destroyCalled' => data' = accepted'
        /\ ends > 0 => data' = data ]_vars

\* 'end' emitted after a chunk written before end() and one written with it.
C4_Witness ==
    /\ ends = 1
    /\ ~destroyCalled
    /\ Len(data) >= 2
    /\ last = "endTick"

\* C5 as stated: from a pause() until the next resume() no 'data', 'drain'
\* or 'end' signal is emitted, in whatever state the component is paused.
C5_PausedIsSilent == [][ _wait => signals' = signals ]_vars

\* C5 as amended: while paused no 'data' and no 'drain' is emitted by any
\* step, and 'end' is emitted only when end() was called and the queue is
\* empty; a pause() made by a 'data' listener at the p-th chunk of a drain
\* pass stops the pass at that chunk, and no 'end' is emitted by that pass.
C5_PausedEmitsOnlyEndOfEmptyQueue ==
    [][ /\ _wait =>
            /\ data' = data
            /\ drains' = drains
            /\ ends' # ends => ended /\ _buffer = << >>
        /\ \A p \in 0..Len(_buffer) :
              (TickFlush(p) \/ Flush(p)) /\ ~_wait /\ _wait' =>
                  /\ p >= 1
                  /\ data' = data \o SubSeq(_buffer, 1, p)
                  /\ ends' = ends ]_vars

\* Paused with a final payload queued: the finalization watcher has run and
\* emitted nothing.
C5_Witness ==
    /\ _wait
    /\ ended
    /\ _buffer # << >>
    /\ last = "endTick"
    /\ signals = << << >>, 0, 0 >>

\* C6: no busy loop: when the component stays paused for ever, from some
\* point on no scheduled step is pending; and a scheduled step that ends
\* with the component paused does not reschedule itself.
C6_NoBusyLoop ==
    /\ <>[]_wait => <>[](ticks = << >>)
    /\ [][ Tick /\ _wait' => Len(ticks') = Len(ticks) - 1 ]_vars

\* Paused with data queued and end() called: the drain step and the watcher
\* have both gone dormant and nothing is pending.
C6_Witness ==
    /\ _wait
    /\ ticks = << >>
    /\ _buffer # << >>
    /\ _flushing
    /\ ended
    /\ last = "endTick"

\* C7: 'drain' is emitted exactly once for each transition of full from
\* true to false, and only after a write returned false.
C7_SingleDrainEdge ==
    [][ /\ drains' # drains =>
            /\ drains' = drains + 1
            /\ full(Obj)
            /\ ~full(Obj)'
            /\ ret = FALSE
        /\ full(Obj) /\ ~full(Obj)' => drains' = drains + 1 ]_vars

\* Two full -> not full transitions, each with its 'drain'.
C7_Witness == drains = 2 /\ ~full(Obj)

\* C8: a write that is accepted enqueues its chunk whatever the limit, and
\* returns false exactly when maxSize >= 0 and size > maxSize afterwards.
C8_WriteReturn ==
    [][ \A chunk \in Chunks :
          Write(chunk) /\ ~threw' =>
              /\ _buffer' = Append(_buffer, chunk)
              /\ size' = size + Len(chunk)
              /\ ret' = ~(maxSize >= 0 /\ size + Len(chunk) > maxSize)
              /\ maxSize < 0 => ret' ]_vars

\* A write beyond the limit: enqueued, and false returned.
C8_Witness ==
    /\ last = "write"
    /\ ~threw
    /\ ~ret
    /\ Len(_buffer) >= 2
    /\ size > maxSize + 1

\* C9: end() on an empty, unpaused component: the finalization watcher is
\* pending, its first run emits 'end' and destroys the component, and so
\* 'end' is eventually emitted with readable = writable = false.
C9_EndTerminates ==
    /\ (last = "end" /\ ~threw /\ _buffer = << >> /\ ~_wait)
           ~> (ends >= 1 /\ ~readable /\ ~writable)
    /\ [](last = "end" /\ ~threw /\ _buffer = << >> /\ ~_wait
             => \E i \in 1..Len(ticks) : ticks[i] = "end")
    /\ [][ TickEnd /\ _buffer = << >> =>
             /\ ends' = ends + 1
             /\ ~readable' /\ ~writable'
             /\ Len(ticks') = Len(ticks) - 1 ]_vars

\* end() was called on a fresh component, which then paused; 'end' came.
C9_Witness ==
    /\ ends = 1
    /\ accepted = << >>
    /\ ~destroyCalled
    /\ ~readable /\ ~writable
    /\ _wait
    /\ calls = 2

\* C10: write() on an ended or destroyed component and end() on an ended one
\* throw and leave the state and the emitted signals unchanged; once ended
\* is true it stays true and no chunk is enqueued any more.
C10_IllegalState ==
    [][ /\ \A chunk \in Chunks :
              Write(chunk) /\ (ended \/ ~writable) =>
                  threw' /\ state' = state /\ signals' = signals
        /\ \A arguments \in EndArgs :
              End(arguments) /\ ended =>
                  threw' /\ state' = state /\ signals' = signals
        /\ ended =>
              /\ ended'
              /\ accepted' = accepted
              /\ Len(_buffer') <= Len(_buffer) ]_vars

\* write() refused by a component that is ended but not yet destroyed.
C10_Witness ==
    /\ last = "write"
    /\ threw
    /\ ended
    /\ writable
    /\ _buffer # << >>

\* C11: once the component is destroyed no 'data' and no 'drain' is emitted
\* any more, and no 'end' except the single terminal 'end' of an end() call
\* made before the destruction.
C11_SilentOnceDestroyed ==
    [][ ~readable =>
          /\ data' = data
          /\ drains' = drains
          /\ ends' # ends => endedAtDestroy /\ ends = 0 ]_vars

\* C12: readable = writable in every state; they become false only by
\* destroy (called directly or by the finalization watcher), and from then
\* on they stay false and the queue stays empty.
C12_DestructionIsTerminal ==
    /\ [](readable = writable)
    /\ [](~readable => _buffer = << >>)
    /\ [][ /\ ~readable => ~readable'
           /\ ~writable => ~writable'
           /\ readable /\ ~readable' => last' \in {"destroy", "endTick"} ]_vars

\* end(chunk) refused by a component that was destroyed directly.
C12_Witness ==
    /\ destroyCalled
    /\ ~readable
    /\ last = "end"
    /\ threw
    /\ ~ended
    /\ calls >= 3

\* Number of drain callbacks in a tick queue.
RECURSIVE Pending(_, _)
Pending(q, name) ==
    IF q = << >> THEN 0
    ELSE (IF Head(q) = name THEN 1 ELSE 0) + Pending(Tail(q), name)

\* C13: at every moment at most one drain step is pending on the event loop.
C13_OneDrainChain == Pending(ticks, "flush") <= 1

\* C14: no deadlock on data: when destroy() is never called directly and the
\* component is unpaused from some point on, every accepted chunk is
\* eventually emitted as 'data'.
C14_DataEventuallyEmitted ==
    ([]~destroyCalled /\ <>[]~_wait) => <>[](data = accepted)

\* Two chunks written around a pause, both emitted after the resume.
C14_Witness ==
    /\ ~destroyCalled
    /\ ~ended
    /\ ~_wait
    /\ calls = 4
    /\ Len(accepted) = 2
    /\ data = accepted
    /\ last = "flushTick"
    /\ ticks = << >>

\* C15: a stalled termination completes after resume: once resume() is
\* called on an ended component, either a later pause follows or 'end' is
\* emitted with readable = writable = false, after all the queued chunks
\* (unless destroy() dropped them).
C15_ResumeCompletesEnd ==
    (ended /\ last = "resume")
        ~> \/ _wait
           \/ /\ ends >= 1
              /\ ~readable /\ ~writable
              /\ destroyCalled \/ data = accepted

\* resume() called on a paused, ended component whose drain step and watcher
\* had both gone dormant with data queued.
C15_Witness ==
    /\ last = "resume"
    /\ ended
    /\ ~destroyCalled
    /\ _buffer # << >>
    /\ ends = 0
    /\ ticks = << "flush", "end" >>

\* C16: an idle component does not keep scheduling itself: a drain step that
\* leaves the queue empty clears _flushing and does not reschedule, and a
\* component that is unpaused from some point on ends with an empty queue
\* and no pending scheduled step.
C16_IdleStops ==
    /\ [][ DoTickFlush /\ _buffer' = << >> =>
             ~_flushing' /\ ticks' = Tail(ticks) ]_vars
    /\ <>[]~_wait => <>[](_buffer = << >> /\ ticks = << >>)

\* Data was drained, and the open component is idle with nothing pending.
C16_Witness ==
    /\ ~ended
    /\ readable
    /\ ~_wait
    /\ ~_flushing
    /\ _buffer = << >>
    /\ ticks = << >>
    /\ Len(data) >= 1
    /\ last = "flushTick"

\* C17 as stated: flush() emits every queued chunk when the component is not
\* paused and readable, nothing otherwise, schedules no step and leaves
\* paused, ended, readable, writable and _flushing unchanged.
C17_FlushPass ==
    [][ \A p \in 0..Len(_buffer) :
          Flush(p) =>
              /\ IF ~_wait /\ readable
                 THEN data' = data \o _buffer /\ _buffer' = << >> /\ size' = 0
                 ELSE data' = data /\ _buffer' = _buffer /\ size' = size
              /\ UNCHANGED << ticks, _wait, ended, readable, writable,
                              _flushing >> ]_vars

\* C17 as amended: as C17, except that a 'data' listener calling pause() at
\* the p-th chunk stops the pass after that chunk: the first p chunks are
\* emitted, the others stay queued with size their total length, and the
\* component is left paused.
C17_FlushPassUntilPaused ==
    [][ \A p \in 0..Len(_buffer) :
          Flush(p) =>
              /\ IF ~_wait /\ readable
                 THEN LET n == IF p = 0 THEN Len(_buffer) ELSE p
                      IN  /\ data' = data \o SubSeq(_buffer, 1, n)
                          /\ _buffer' = SubSeq(_buffer, n + 1, Len(_buffer))
                          /\ size' = SumLen(_buffer')
                          /\ _wait' = (p >= 1)
                 ELSE data' = data /\ _buffer' = _buffer /\ size' = size
                      /\ _wait' = _wait
              /\ UNCHANGED << ticks, ended, readable, writable,
                              _flushing >> ]_vars

\* flush() called right after two writes: both chunks are out, the drain
\* step scheduled by write() is still pending.
C17_Witness ==
    /\ last = "flush"
    /\ Len(data) = 2
    /\ data = accepted
    /\ _buffer = << >>
    /\ size = 0
    /\ _flushing
    /\ ticks = << "flush" >>

\* C18: pause() changes only _wait, resume() only _wait and the scheduled
\* steps; a write() made while paused is accepted and enqueued.
C18_PauseResumeFrame ==
    [][ /\ Pause =>
              /\ _wait'
              /\ UNCHANGED << size, readable, writable, ended, maxSize,
                              _buffer, _flushing, _wasFull, ticks, signals >>
        /\ Resume =>
              /\ ~_wait'
              /\ UNCHANGED << size, readable, writable, ended, maxSize,
                              _buffer, _flushing, _wasFull, signals >>
        /\ \A chunk \in Chunks :
              Write(chunk) /\ _wait /\ writable /\ ~ended =>
                  ~threw' /\ _buffer' = _buffer \o << chunk >> ]_vars

\* A chunk written while paused, then resume(): the chunk is still queued.
C18_Witness ==
    /\ last = "resume"
    /\ ~_wait
    /\ Len(_buffer) >= 1
    /\ data = << >>
    /\ _buffer = accepted
    /\ ticks = << "flush" >>

\* C19: no stranded data: when the queue is non-empty and the component is
\* readable and not paused, a drain step is pending on the event loop.
C19_NoStrandedData ==
    (_buffer # << >> /\ ~_wait /\ readable) => Pending(ticks, "flush") >= 1

\* A chunk written after the first drain chain stopped: a new drain step is
\* pending for it.
C19_Witness ==
    /\ last = "write"
    /\ ~threw
    /\ ~_wait
    /\ Len(data) >= 1
    /\ Len(_buffer) = 1
    /\ ticks = << "flush" >>

\* C20: between operations the stored flag _wasFull equals the derived
\* property full.
C20_WasFullIsFull == _wasFull = full(Obj)

\* A drain pass that a listener paused while the buffer was still full.
C20_Witness ==
    /\ _wasFull
    /\ full(Obj)
    /\ _wait
    /\ last = "flushTick"
    /\ Len(data) >= 1
    /\ drains = 0

=============================================================================
